---- MODULE Spec2Model ----
(***************************************************************************)
(* PR-SUMMARIZER: the diff chunker (chunk_diff), the per-chunk summarizer  *)
(* (summarize_diff_with_dobby), the GitHub webhook handler of app.py and   *)
(* the streaming agent of agent.py.                                        *)
(*                                                                         *)
(* A text is a sequence of characters; a character is a one-token string.  *)
(* "LF", "CR" and "FF" stand for the characters \n, \r and \f.             *)
(***************************************************************************)
EXTENDS Integers, Sequences, FiniteSets, TLC

VARIABLES
    pc,              \* position of the running call or handler
    diff_text,       \* chunk_diff's argument / the fetched diff
    max_chunk_size,  \* chunk_diff's second argument
    chunks,          \* chunk_diff's result
    request,         \* app.py: the inbound webhook request and the configured secret
    query,           \* agent.py: the parsed user prompt (query.prompt)
    i,               \* the summarizer loop's 1-based index (enumerate(chunks, 1))
    summaries,       \* app.py: the summaries list of summarize_diff_with_dobby
    response,        \* app.py: the HTTP response of the webhook handler
    posted,          \* the comments that exist on the pull request
    trace            \* the outbound calls and emitted blocks, in the order they happen

vars == <<pc, diff_text, max_chunk_size, chunks, request, query, i, summaries,
          response, posted, trace>>

----------------------------------------------------------------------------
(* Bounds of the model *)

\* longest diff text given to chunk_diff in ChunkSpec
MaxLen == 6
\* largest max_chunk_size given to chunk_diff in ChunkSpec
MaxM == 5
\* most lines in a diff the GitHub API returns to a handler
MaxDiffLines == 3
\* max_chunk_size the summarizers pass to chunk_diff; the code passes 50000
\* (app.py:73, agent.py:63) and the model scales it down with the diffs
SummarizeChunkSize == 4
\* longest URL path (in tokens) given to the agent
MaxPathLen == 8

----------------------------------------------------------------------------
(* Characters and texts *)

LF == "LF"
CR == "CR"
FF == "FF"

\* the characters str.splitlines() treats as line boundaries (those of the alphabet)
LineBreaks == {LF, CR, FF}

Chars == {"a", "b", LF, CR, FF}

RECURSIVE TextsUpTo(_)
TextsUpTo(n) ==
    IF n = 0 THEN {<<>>}
    ELSE LET shorter == TextsUpTo(n - 1)
         IN  shorter \cup {Append(t, c) : t \in {s \in shorter : Len(s) = n - 1}, c \in Chars}

\* the state of the parts of the program that are not running
NoRequest == [secret |-> "None"]
NoQuery == [hostname |-> "None"]
NoResponse == [status |-> 0]

\* a line of n copies of c
Repeat(c, n) == [k \in 1..n |-> c]

RECURSIVE Concat(_)
Concat(seqs) == IF seqs = <<>> THEN <<>> ELSE Head(seqs) \o Concat(Tail(seqs))

RECURSIVE SplitFrom(_, _, _)
\* str.splitlines() from position k on, `cur` being the line read so far:
\* a boundary ends the line (CR LF counts as one boundary), boundaries are
\* dropped, and the text after the last boundary is a line iff it is non-empty.
SplitFrom(s, k, cur) ==
    IF k > Len(s) THEN (IF cur = <<>> THEN <<>> ELSE <<cur>>)
    ELSE IF s[k] \in LineBreaks
         THEN IF s[k] = CR /\ k < Len(s) /\ s[k + 1] = LF
              THEN <<cur>> \o SplitFrom(s, k + 2, <<>>)
              ELSE <<cur>> \o SplitFrom(s, k + 1, <<>>)
         ELSE SplitFrom(s, k + 1, Append(cur, s[k]))

splitlines(s) == SplitFrom(s, 1, <<>>)

----------------------------------------------------------------------------
(* chunk_diff (app.py:47-62, agent.py:42-57) *)

\* faulty variant of line_nl: the "\n" is forgotten
line_nl_bare(line) == line

\* line + "\n"
line_nl(line) == line \o <<LF>>

\* faulty variant of exceeds: the "\n" is not counted
exceeds_uncounted(current_chunk, line, M) == Len(current_chunk) + Len(line) > M

\* if len(current_chunk) + len(line) + 1 > max_chunk_size
exceeds(current_chunk, line, M) == Len(current_chunk) + Len(line) + 1 > M

\* if current_chunk: chunks.append(current_chunk)
append_if_nonempty(cs, current_chunk) ==
    IF current_chunk # <<>> THEN Append(cs, current_chunk) ELSE cs

RECURSIVE chunk_loop_no_tail(_, _, _, _, _)
\* faulty variant of chunk_loop: the append after the loop is forgotten
chunk_loop_no_tail(lines, k, M, cs, current_chunk) ==
    IF k > Len(lines) THEN cs
    ELSE LET line == lines[k]
         IN  IF exceeds(current_chunk, line, M)
             THEN chunk_loop_no_tail(lines, k + 1, M,
                                     append_if_nonempty(cs, current_chunk), line_nl(line))
             ELSE chunk_loop_no_tail(lines, k + 1, M, cs, current_chunk \o line_nl(line))

RECURSIVE chunk_loop(_, _, _, _, _)
\* the for loop over lines from index k on, and the final append after it
chunk_loop(lines, k, M, cs, current_chunk) ==
    IF k > Len(lines) THEN append_if_nonempty(cs, current_chunk)
    ELSE LET line == lines[k]
         IN  IF exceeds(current_chunk, line, M)
             THEN chunk_loop(lines, k + 1, M,
                             append_if_nonempty(cs, current_chunk), line_nl(line))
             ELSE chunk_loop(lines, k + 1, M, cs, current_chunk \o line_nl(line))

chunk_diff(text, M) == chunk_loop(splitlines(text), 1, M, <<>>, <<>>)

----------------------------------------------------------------------------
(* The external services: what a call to them can return *)

\* the diff of k lines, each of which fills a chunk of SummarizeChunkSize alone
DiffOfLines(k) ==
    Concat([j \in 1..k |-> Repeat("a", SummarizeChunkSize - 1) \o <<LF>>])

\* the diffs GET /repos/{owner}/{repo}/pulls/{n} may return: 0..MaxDiffLines
\* full lines, and two short lines that share a chunk
ResponseDiffs ==
    {DiffOfLines(k) : k \in 0..MaxDiffLines} \cup {<<"a", LF, "b", CR, LF>>}

\* requests.get + raise_for_status (app.py:41-43): a body, or an exception
FetchOutcomes ==
    {[kind |-> "ok", text |-> d] : d \in ResponseDiffs}
        \cup {[kind |-> "network_error"], [kind |-> "http_error"]}

\* requests.post + raise_for_status + response.json()[...] (app.py:137-139):
\* a content string, or an exception (connection failure, non-2xx status, a
\* body that is not JSON or lacks choices[0].message.content)
CompletionOutcomes ==
    {[kind |-> "ok", content |-> c] : c \in {"s1", "s2"}}
        \cup {[kind |-> "network_error"], [kind |-> "http_error"],
              [kind |-> "malformed_body"]}

\* requests.post + raise_for_status (app.py:156-157)
PostOutcomes == {[kind |-> "ok"], [kind |-> "network_error"], [kind |-> "http_error"]}

Failed(outcome) == outcome.kind # "ok"

\* the events of `trace` with the given op
Events(op) == SelectSeq(trace, LAMBDA e : e.op = op)

----------------------------------------------------------------------------
(* Rendering (app.py:140-144, 190; agent.py:82, 85) *)

\* f"**Chunk {i} Summary**:\n{summary}"
summary_block(n, summary) == <<"**Chunk ", ToString(n), " Summary**:", LF, summary>>

\* faulty variant of error_block: the index counts from 0
error_block_zero_based(n) ==
    <<"**Chunk ", ToString(n - 1), " Summary**:", " Error processing chunk">>

\* f"**Chunk {i} Summary**: Error processing chunk"
error_block(n) == <<"**Chunk ", ToString(n), " Summary**:", " Error processing chunk">>

\* the try/except of the loop body: the block appended for chunk n
rendered(n, outcome) ==
    IF Failed(outcome) THEN error_block(n) ELSE summary_block(n, outcome.content)

RECURSIVE join(_, _)
\* sep.join(blocks)
join(sep, blocks) ==
    IF blocks = <<>> THEN <<>>
    ELSE IF Len(blocks) = 1 THEN blocks[1]
    ELSE blocks[1] \o sep \o join(sep, Tail(blocks))

\* "\n\n".join(summaries)
combined_summary(blocks) == join(<<LF, LF>>, blocks)

\* f"**PR Summary by Dobby-70**:\n\n{summary}"
comment_of(summary) == <<"**PR Summary by Dobby-70**:", LF, LF>> \o summary

----------------------------------------------------------------------------
(* app.py: verify_signature and the webhook handler *)

\* hmac.new(key, msg, sha256).hexdigest(): an ideal MAC, one digest per (key, msg)
hexdigest(key, msg) == [key |-> key, msg |-> msg]

\* a header value, the string prefix + digest
SigString(prefix, digest) == [kind |-> "str", prefix |-> prefix, digest |-> digest]

\* request.headers.get('X-Hub-Signature-256') when the header is absent: None
NoSignature == [kind |-> "absent"]

\* a header value holding a character outside ASCII
NonAsciiSignature == [kind |-> "non_ascii"]

\* "sha256=" + mac.hexdigest()
expected_signature(secret, payload) == SigString("sha256=", hexdigest(secret, payload))

\* if not GITHUB_WEBHOOK_SECRET
secret_unset(secret) == secret \in {"None", ""}

\* hmac.compare_digest(a, b): TypeError unless b is an ASCII str
compare_digest(a, b) ==
    IF b.kind # "str" THEN "TypeError"
    ELSE IF a = b THEN "True" ELSE "False"

\* verify_signature(payload, signature): "True", "False", or the exception raised
verify_signature(secret, payload, signature) ==
    IF secret_unset(secret) THEN "True"
    ELSE compare_digest(expected_signature(secret, payload), signature)

\* faulty variant of AcceptedActions: 'closed' is summarized too
AcceptedActionsAndClosed == {"opened", "synchronize", "reopened", "closed"}

\* if action not in ['opened', 'synchronize', 'reopened']
AcceptedActions == {"opened", "synchronize", "reopened"}

\* Flask's answer to an exception the view does not catch
InternalServerError == [status |-> 500, body |-> "Internal Server Error"]

\* jsonify({...}), status
Json(status, key, text) == [status |-> status, body |-> <<key, text>>]

\* payload['pull_request']: a pull request object, or the key is missing
NoPullRequest == [present |-> FALSE]
PullRequest == [present |-> TRUE, owner |-> "o", repo |-> "r", number |-> 7]

\* the JSON bodies GitHub (or anyone) may send
Payloads ==
    [action : {"None", "opened", "synchronize", "reopened", "closed"},
     pull_request : {NoPullRequest, PullRequest}]

\* a body other than b
OtherPayload(b) == CHOOSE o \in Payloads : o # b

\* the X-Hub-Signature-256 headers a request with body b may carry
SignatureHeaders(b) ==
    { NoSignature, NonAsciiSignature,
      SigString("sha256=", hexdigest("k1", b)),
      SigString("sha256=", hexdigest("k2", b)),
      SigString("sha256=", hexdigest("k1", OtherPayload(b))),
      SigString("sha1=", hexdigest("k1", b)) }

WebhookInit ==
    /\ pc = "recv"
    /\ \E secret \in {"None", "", "k1"}, body \in Payloads,
          event \in {"pull_request", "issues", "None"} :
          \E signature \in SignatureHeaders(body) :
              request = [secret |-> secret, body |-> body,
                         signature |-> signature, event |-> event]
    /\ diff_text = <<>>
    /\ max_chunk_size = SummarizeChunkSize
    /\ chunks = <<>>
    /\ query = NoQuery
    /\ i = 0
    /\ summaries = <<>>
    /\ response = NoResponse
    /\ posted = <<>>
    /\ trace = <<>>

\* return <response>: the handler ends
Respond(r) ==
    /\ response' = r
    /\ pc' = "done"

\* webhook(), lines 162-185: up to the first outbound call
webhook_entry(req) ==
    LET verdict == verify_signature(req.secret, req.body, req.signature)
        payload == req.body
        pr == payload.pull_request
    IN  IF verdict = "TypeError" THEN [next |-> "done", response |-> InternalServerError]
        ELSE IF verdict = "False"
             THEN [next |-> "done", response |-> Json(403, "error", "Signature mismatch")]
        ELSE IF req.event # "pull_request"
             THEN [next |-> "done", response |-> Json(200, "message", "Ignored event")]
        ELSE IF payload.action \notin AcceptedActions
             THEN [next |-> "done", response |-> Json(200, "message", "Ignored action")]
        ELSE IF ~pr.present
             THEN [next |-> "done", response |-> InternalServerError]
        ELSE [next |-> "fetch", response |-> NoResponse]

WebhookReceive ==
    /\ pc = "recv"
    /\ LET r == webhook_entry(request)
       IN  /\ pc' = r.next
           /\ response' = r.response
    /\ UNCHANGED <<diff_text, max_chunk_size, chunks, request, query, i, summaries,
                   posted, trace>>

\* the fetch event of the webhook, for the pull request of the payload
WebhookFetchEvent(o) ==
    LET pr == request.body.pull_request
    IN  [op |-> "fetch", owner |-> pr.owner, repo |-> pr.repo, number |-> pr.number,
         outcome |-> o]

\* fetch_pr_diff raises: except Exception -> 500
WebhookFetchFails ==
    /\ pc = "fetch"
    /\ \E o \in {f \in FetchOutcomes : Failed(f)} :
          /\ trace' = Append(trace, WebhookFetchEvent(o))
          /\ Respond(Json(500, "error", o.kind))
    /\ UNCHANGED <<diff_text, max_chunk_size, chunks, request, query, i, summaries,
                   posted>>

\* diff_text = fetch_pr_diff(...); summarize_diff_with_dobby starts:
\* chunks = chunk_diff(diff_text, max_chunk_size=50000); summaries = []
WebhookFetch ==
    /\ pc = "fetch"
    /\ \E o \in {f \in FetchOutcomes : ~Failed(f)} :
          /\ trace' = Append(trace, WebhookFetchEvent(o))
          /\ diff_text' = o.text
          /\ chunks' = chunk_diff(o.text, max_chunk_size)
    /\ i' = 1
    /\ summaries' = <<>>
    /\ pc' = "summarize"
    /\ UNCHANGED <<max_chunk_size, request, query, response, posted>>

\* faulty variant of more_chunks: the loop stops one chunk early
more_chunks_short(n, cs) == n < Len(cs)

\* for i, chunk in enumerate(chunks, 1): is there a chunk i
more_chunks(n, cs) == n <= Len(cs)

\* requests.post(url, headers=headers, json=data) for chunk i is sent
CompletionCall ==
    /\ pc = "summarize"
    /\ more_chunks(i, chunks)
    /\ trace' = Append(trace, [op |-> "completion_call", index |-> i,
                               total |-> Len(chunks), chunk |-> chunks[i]])
    /\ pc' = "await"
    /\ UNCHANGED <<diff_text, max_chunk_size, chunks, request, query, i, summaries,
                   response, posted>>

\* the call returns or raises; the block for chunk i is appended either way
CompletionReturn ==
    /\ pc = "await"
    /\ \E o \in CompletionOutcomes :
          /\ trace' = Append(trace, [op |-> "completion_result", index |-> i,
                                     outcome |-> o])
          /\ summaries' = Append(summaries, rendered(i, o))
    /\ i' = i + 1
    /\ pc' = "summarize"
    /\ UNCHANGED <<diff_text, max_chunk_size, chunks, request, query, response, posted>>

\* faulty variant of after_post: the except clause answers 200 as well
after_post_always_ok(o) == Json(200, "message", "Summary posted")

\* post_comment_to_pr returned: 200; it raised: except Exception -> 500
after_post(o) ==
    IF Failed(o) THEN Json(500, "error", o.kind)
    ELSE Json(200, "message", "Summary posted")

\* the loop is over: combined_summary, comment, post_comment_to_pr, return
WebhookPost ==
    /\ pc = "summarize"
    /\ ~more_chunks(i, chunks)
    /\ LET comment == comment_of(combined_summary(summaries))
       IN  \E o \in PostOutcomes :
             /\ trace' = Append(trace, [op |-> "post", comment |-> comment,
                                        outcome |-> o])
             /\ posted' = IF Failed(o) THEN posted ELSE Append(posted, comment)
             /\ Respond(after_post(o))
    /\ UNCHANGED <<diff_text, max_chunk_size, chunks, request, query, i, summaries>>

WebhookNext ==
    \/ WebhookReceive
    \/ WebhookFetchFails
    \/ WebhookFetch
    \/ CompletionCall
    \/ CompletionReturn
    \/ WebhookPost

WebhookSpec == WebhookInit /\ [][WebhookNext]_vars

----------------------------------------------------------------------------
(* agent.py: parse_pr_url and PRSummarizerAgent.assist *)

(* A URL path is a sequence of tokens: "/" is the separator, "pull" the word *)
(* pull and "7" a digit; a segment is the tokens between two separators. *)
PathTokens == {"/", "pull", "7"}

RECURSIVE TokensUpTo(_)
TokensUpTo(n) ==
    IF n = 0 THEN {<<>>}
    ELSE LET shorter == TokensUpTo(n - 1)
         IN  shorter \cup {Append(t, c) : t \in {s \in shorter : Len(s) = n - 1},
                                          c \in PathTokens}

\* urlparse(pr_url).path of a URL with a host: empty, or it starts with "/"
Paths == {<<>>} \cup {<<"/">> \o t : t \in TokensUpTo(MaxPathLen - 1)}

\* urlparse(pr_url): hostname (None for a prompt without //host) and path
Queries == [hostname : {"github.com", "gitlab.com", "None"}, path : Paths]

RECURSIVE lstrip_slash(_)
lstrip_slash(p) == IF p # <<>> /\ Head(p) = "/" THEN lstrip_slash(Tail(p)) ELSE p

RECURSIVE rstrip_slash(_)
rstrip_slash(p) ==
    IF p # <<>> /\ p[Len(p)] = "/" THEN rstrip_slash(SubSeq(p, 1, Len(p) - 1)) ELSE p

\* parsed.path.strip('/')
strip_slash(p) == rstrip_slash(lstrip_slash(p))

RECURSIVE SplitSlashFrom(_, _, _)
SplitSlashFrom(p, k, cur) ==
    IF k > Len(p) THEN <<cur>>
    ELSE IF p[k] = "/" THEN <<cur>> \o SplitSlashFrom(p, k + 1, <<>>)
    ELSE SplitSlashFrom(p, k + 1, Append(cur, p[k]))

\* str.split('/'): the empty string gives ['']
split_slash(p) == SplitSlashFrom(p, 1, <<>>)

\* parse_pr_url(pr_url): the parts, or the ValueError raised
parse_pr_url(q) ==
    LET path_parts == split_slash(strip_slash(q.path))
    IN  IF q.hostname # "github.com"
        THEN [ok |-> FALSE, error |-> "Invalid GitHub URL"]
        ELSE IF Len(path_parts) # 4 \/ path_parts[3] # <<"pull">>
             THEN [ok |-> FALSE, error |-> "URL must be a GitHub Pull Request URL"]
        ELSE [ok |-> TRUE, owner |-> path_parts[1], repo |-> path_parts[2],
              pull_number |-> path_parts[4]]

\* f"**Chunk {i} Summary**:\n{summary}\n\n"
agent_summary_block(n, summary) ==
    <<"**Chunk ", ToString(n), " Summary**:", LF, summary, LF, LF>>

\* f"**Chunk {i} Summary**: Error processing chunk\n\n"
agent_error_block(n) ==
    <<"**Chunk ", ToString(n), " Summary**:", " Error processing chunk", LF, LF>>

\* the try/except of stream_summaries: the block yielded for chunk n
yielded(n, outcome) ==
    IF Failed(outcome) THEN agent_error_block(n)
    ELSE agent_summary_block(n, outcome.content)

\* await response_handler.emit_text_block(name, ...)
EmitTextBlock(name) == [op |-> "emit_text_block", name |-> name]

\* except Exception as e: emit_error("ERROR", {"message": str(e)}); complete()
ErrorAndComplete(message) ==
    <<[op |-> "emit_error", name |-> "ERROR", message |-> message],
      [op |-> "complete"]>>

AgentInit ==
    /\ pc = "assist"
    /\ query \in Queries
    /\ diff_text = <<>>
    /\ max_chunk_size = SummarizeChunkSize
    /\ chunks = <<>>
    /\ request = NoRequest
    /\ i = 0
    /\ summaries = <<>>
    /\ response = NoResponse
    /\ posted = <<>>
    /\ trace = <<>>

\* assist, lines 95-96 with a raising parse_pr_url, then the except clause
AssistRejects ==
    /\ pc = "assist"
    /\ ~parse_pr_url(query).ok
    /\ trace' = <<EmitTextBlock("START")>> \o ErrorAndComplete(parse_pr_url(query).error)
    /\ pc' = "done"
    /\ UNCHANGED <<diff_text, max_chunk_size, chunks, request, query, i, summaries,
                   response, posted>>

\* assist, lines 95-97: the URL parses
AssistParses ==
    /\ pc = "assist"
    /\ parse_pr_url(query).ok
    /\ trace' = <<EmitTextBlock("START"), EmitTextBlock("FETCH")>>
    /\ pc' = "agent_fetch"
    /\ UNCHANGED <<diff_text, max_chunk_size, chunks, request, query, i, summaries,
                   response, posted>>

\* the fetch event of the agent, for the parts parse_pr_url returned
AgentFetchEvent(o) ==
    LET parts == parse_pr_url(query)
    IN  [op |-> "fetch", owner |-> parts.owner, repo |-> parts.repo,
         number |-> parts.pull_number, outcome |-> o]

\* assist, line 98 raising, then the except clause
AssistFetchFails ==
    /\ pc = "agent_fetch"
    /\ \E o \in {f \in FetchOutcomes : Failed(f)} :
          trace' = trace \o <<AgentFetchEvent(o)>> \o ErrorAndComplete(o.kind)
    /\ pc' = "done"
    /\ UNCHANGED <<diff_text, max_chunk_size, chunks, request, query, i, summaries,
                   response, posted>>

\* assist, lines 98-101: the diff arrives, the SUMMARY stream is created and
\* summarize_diff_with_dobby chunks the diff and returns the generator
AssistFetch ==
    /\ pc = "agent_fetch"
    /\ \E o \in {f \in FetchOutcomes : ~Failed(f)} :
          /\ trace' = trace \o <<AgentFetchEvent(o), EmitTextBlock("SUMMARIZE"),
                                 [op |-> "create_text_stream", name |-> "SUMMARY"]>>
          /\ diff_text' = o.text
          /\ chunks' = chunk_diff(o.text, max_chunk_size)
    /\ i' = 1
    /\ pc' = "stream"
    /\ UNCHANGED <<max_chunk_size, request, query, summaries, response, posted>>

\* faulty variant of stream_has_next: the generator stops one chunk early
stream_has_next_short(n, cs) == n < Len(cs)

\* stream_summaries: for i, chunk in enumerate(chunks, 1): is there a chunk i
stream_has_next(n, cs) == n <= Len(cs)

\* the async for asks for the next item: the generator sends the call for chunk i
GeneratorCall ==
    /\ pc = "stream"
    /\ stream_has_next(i, chunks)
    /\ trace' = Append(trace, [op |-> "completion_call", index |-> i,
                               total |-> Len(chunks), chunk |-> chunks[i]])
    /\ pc' = "agent_await"
    /\ UNCHANGED <<diff_text, max_chunk_size, chunks, request, query, i, summaries,
                   response, posted>>

\* the call returns or raises, the generator yields the block, and the loop
\* body of assist emits it on the SUMMARY stream
GeneratorYield ==
    /\ pc = "agent_await"
    /\ \E o \in CompletionOutcomes :
          trace' = trace \o <<[op |-> "completion_result", index |-> i, outcome |-> o],
                              [op |-> "emit_chunk", stream |-> "SUMMARY",
                               text |-> yielded(i, o)]>>
    /\ i' = i + 1
    /\ pc' = "stream"
    /\ UNCHANGED <<diff_text, max_chunk_size, chunks, request, query, summaries,
                   response, posted>>

\* the generator is exhausted: final_response_stream.complete(), then
\* response_handler.complete()
AssistCompletes ==
    /\ pc = "stream"
    /\ ~stream_has_next(i, chunks)
    /\ trace' = trace \o <<[op |-> "stream_complete", stream |-> "SUMMARY"],
                           [op |-> "complete"]>>
    /\ pc' = "done"
    /\ UNCHANGED <<diff_text, max_chunk_size, chunks, request, query, i, summaries,
                   response, posted>>

AgentNext ==
    \/ AssistRejects
    \/ AssistParses
    \/ AssistFetchFails
    \/ AssistFetch
    \/ GeneratorCall
    \/ GeneratorYield
    \/ AssistCompletes

AgentSpec == AgentInit /\ [][AgentNext]_vars

\* both summarizers: the webhook handler of app.py and the agent of agent.py
SummarizerSpec == (WebhookInit \/ AgentInit) /\ [][WebhookNext \/ AgentNext]_vars

----------------------------------------------------------------------------
(* ChunkSpec: chunk_diff applied to every bounded input *)

\* the line boundaries a diff may use between and after its lines
Boundaries == {<<LF>>, <<CR>>, <<CR, LF>>, <<FF>>}

\* the diffs of three lines of ten characters each
ScenarioDiffs ==
    { Repeat(c1, 10) \o b1 \o Repeat(c2, 10) \o b2 \o Repeat(c3, 10) \o b3 :
        c1 \in {"a", "b"}, c2 \in {"a", "b"}, c3 \in {"a"},
        b1 \in Boundaries, b2 \in Boundaries, b3 \in Boundaries \cup {<<>>} }

ChunkInputs ==
    (TextsUpTo(MaxLen) \X (1..MaxM)) \cup (ScenarioDiffs \X {25})

ChunkInit ==
    /\ pc = "chunk_call"
    /\ \E inp \in ChunkInputs : diff_text = inp[1] /\ max_chunk_size = inp[2]
    /\ chunks = <<>>
    /\ request = NoRequest
    /\ query = NoQuery
    /\ i = 0
    /\ summaries = <<>>
    /\ response = NoResponse
    /\ posted = <<>>
    /\ trace = <<>>

\* chunks = chunk_diff(diff_text, max_chunk_size)
ChunkDiffCall ==
    /\ pc = "chunk_call"
    /\ chunks' = chunk_diff(diff_text, max_chunk_size)
    /\ pc' = "chunk_done"
    /\ UNCHANGED <<diff_text, max_chunk_size, request, query, i, summaries,
                   response, posted, trace>>

ChunkNext == ChunkDiffCall

ChunkSpec == ChunkInit /\ [][ChunkNext]_vars

----------------------------------------------------------------------------
(* Claims about chunk_diff *)

\* the lines of diff_text, as chunk_diff reads them
Lines == splitlines(diff_text)

\* the number of lines held by the chunks before chunk j
RECURSIVE LinesBefore(_)
LinesBefore(j) ==
    IF j <= 1 THEN 0 ELSE LinesBefore(j - 1) + Len(splitlines(chunks[j - 1]))

\* the chunk that holds line k of the diff
ChunkOf(k) ==
    CHOOSE j \in 1..Len(chunks) :
        LinesBefore(j) < k /\ k <= LinesBefore(j) + Len(splitlines(chunks[j]))

\* C1: the chunks of chunk_diff(D, M), concatenated in order and split into
\* lines, give exactly D.splitlines(); the empty diff gives no chunk.
C1_ChunksReconstructLines ==
    pc = "chunk_done" =>
        /\ splitlines(Concat(chunks)) = Lines
        /\ (diff_text = <<>> => chunks = <<>>)

C1_Witness ==
    /\ pc = "chunk_done"
    /\ Len(chunks) >= 2
    /\ Len(Lines) >= 3
    /\ \E k \in 1..Len(Lines) : Lines[k] = <<>>

\* C2: every chunk holding two or more lines has length at most M, and a line
\* longer than M is, unsplit, the only line of the one chunk that holds it.
C2_MultiLineChunksBounded ==
    pc = "chunk_done" =>
        /\ \A j \in 1..Len(chunks) :
              Len(splitlines(chunks[j])) >= 2 => Len(chunks[j]) <= max_chunk_size
        /\ Len(Lines) = LinesBefore(Len(chunks) + 1)
        /\ \A k \in 1..Len(Lines) :
              Len(Lines[k]) > max_chunk_size =>
                  /\ splitlines(chunks[ChunkOf(k)]) = <<Lines[k]>>
                  /\ Len(chunks[ChunkOf(k)]) > max_chunk_size

C2_Witness ==
    /\ pc = "chunk_done"
    /\ \E j \in 1..Len(chunks) :
          Len(splitlines(chunks[j])) >= 2 /\ Len(chunks[j]) = max_chunk_size
    /\ \E k \in 1..Len(Lines) :
          /\ Len(Lines[k]) > max_chunk_size
          /\ Len(chunks[ChunkOf(k)]) > max_chunk_size

\* the scenario of C3: three lines of ten characters, max_chunk_size 25
ScenarioCase ==
    /\ max_chunk_size = 25
    /\ Len(Lines) = 3
    /\ \A k \in 1..3 : Len(Lines[k]) = 10

\* C3 as stated: two chunks, the first holds lines 1 and 2 and has length 21,
\* the second holds line 3 alone.
C3_FirstChunkIs21 ==
    (pc = "chunk_done" /\ ScenarioCase) =>
        /\ Len(chunks) = 2
        /\ splitlines(chunks[1]) = <<Lines[1], Lines[2]>>
        /\ Len(chunks[1]) = 21
        /\ splitlines(chunks[2]) = <<Lines[3]>>

\* C3 amended: two chunks, the first holds lines 1 and 2 and has length 22
\* (each line is stored with its "\n": 21 without the last one), the second
\* holds line 3 alone.
C3_FirstChunkIs22 ==
    (pc = "chunk_done" /\ ScenarioCase) =>
        /\ Len(chunks) = 2
        /\ splitlines(chunks[1]) = <<Lines[1], Lines[2]>>
        /\ chunks[1] = Lines[1] \o <<LF>> \o Lines[2] \o <<LF>>
        /\ Len(chunks[1]) = 22
        /\ splitlines(chunks[2]) = <<Lines[3]>>

C3_Witness ==
    /\ pc = "chunk_done"
    /\ ScenarioCase
    /\ Len(chunks) = 2
    /\ Len(chunks[1]) = 22

----------------------------------------------------------------------------
(* Claims about the summarizers, the webhook handler and the agent *)

\* the positions in `trace` of the events with the given op
Positions(op) ==
    SelectSeq([k \in 1..Len(trace) |-> k], LAMBDA k : trace[k].op = op)

Calls == Events("completion_call")
Results == Events("completion_result")
Emits == Events("emit_chunk")

FetchFailed == \E k \in 1..Len(trace) : trace[k].op = "fetch" /\ Failed(trace[k].outcome)
FetchSucceeded == \E k \in 1..Len(trace) : trace[k].op = "fetch" /\ ~Failed(trace[k].outcome)
CompletionFailed ==
    \E k \in 1..Len(trace) : trace[k].op = "completion_result" /\ Failed(trace[k].outcome)
PostFailed == \E k \in 1..Len(trace) : trace[k].op = "post" /\ Failed(trace[k].outcome)
PostSucceeded == \E k \in 1..Len(trace) : trace[k].op = "post" /\ ~Failed(trace[k].outcome)

InWebhook == request # NoRequest
InAgent == query # NoQuery

\* the block the spec expects for chunk j, given what its completion call did
ExpectedBlock(j, outcome) ==
    IF outcome.kind = "ok"
    THEN <<"**Chunk ", ToString(j), " Summary**:", LF, outcome.content>>
    ELSE <<"**Chunk ", ToString(j), " Summary**:", " Error processing chunk">>

\* C4: whichever completion calls fail, the summarizer produces one block per
\* chunk, in index order 1..N; block i is the error marker exactly when the
\* call for chunk i failed and carries the summary returned for chunk i
\* otherwise (app.py: the summaries list; agent.py: the blocks yielded).
C4_OneBlockPerChunk ==
    /\ \A j \in 1..Len(Results) :
          /\ Results[j].index = j
          /\ Calls[j].index = j
          /\ Calls[j].chunk = chunks[j]
    /\ InWebhook =>
          /\ Len(summaries) = Len(Results)
          /\ \A j \in 1..Len(summaries) :
                summaries[j] = ExpectedBlock(j, Results[j].outcome)
          /\ Events("post") # <<>> => Len(summaries) = Len(chunks)
    /\ InAgent =>
          /\ Len(Emits) = Len(Results)
          /\ \A j \in 1..Len(Emits) :
                Emits[j].text = ExpectedBlock(j, Results[j].outcome) \o <<LF, LF>>
          /\ Events("stream_complete") # <<>> => Len(Emits) = Len(chunks)

C4_Witness ==
    /\ pc = "done"
    /\ InWebhook
    /\ Len(chunks) >= 2
    /\ Len(summaries) = Len(chunks)
    /\ Failed(Results[1].outcome)
    /\ ~Failed(Results[2].outcome)

\* C5 as stated: for an accepted event, a failure of the diff fetch, of the
\* summarization or of the comment post gives a 500 response, and no comment
\* is posted.
C5_AnyFailureGives500 ==
    (pc = "done" /\ (FetchFailed \/ CompletionFailed \/ PostFailed)) =>
        /\ response.status = 500
        /\ posted = <<>>

\* C5 amended: a failure of the diff fetch or of the comment post gives a 500
\* response and no comment; a failed completion call alone does not: the
\* request succeeds and the one comment posted carries the error marker for
\* that chunk.
C5_FetchOrPostFailureGives500 ==
    /\ (FetchFailed \/ PostFailed) => posted = <<>>
    /\ (pc = "done" /\ (FetchFailed \/ PostFailed)) => response.status = 500
    /\ (pc = "done" /\ FetchSucceeded /\ ~PostFailed) =>
          /\ response.status = 200
          /\ Len(posted) = 1
          /\ posted[1] = <<"**PR Summary by Dobby-70**:", LF, LF>>
                            \o join(<<LF, LF>>, [j \in 1..Len(chunks) |->
                                                    ExpectedBlock(j, Results[j].outcome)])

C5_Witness ==
    /\ pc = "done"
    /\ PostFailed
    /\ CompletionFailed
    /\ Len(chunks) >= 2
    /\ response.status = 500
    /\ posted = <<>>

\* C6: with a secret configured, a request whose signature header is absent or
\* differs from "sha256=" + HMAC-SHA256(secret, body) is answered 403 and
\* causes no diff fetch, completion call or comment post.
C6_BadSignatureGives403 ==
    (/\ InWebhook
     /\ request.secret \notin {"None", ""}
     /\ request.signature # SigString("sha256=", hexdigest(request.secret, request.body)))
    => /\ trace = <<>>
       /\ posted = <<>>
       /\ pc = "done" => response.status = 403

\* the request passed the signature check
Verified ==
    \/ request.secret \in {"None", ""}
    \/ request.signature = SigString("sha256=", hexdigest(request.secret, request.body))

PrPathShape(p) ==
    LET parts == split_slash(strip_slash(p))
    IN  /\ Len(parts) = 4
        /\ parts[1] # <<>>
        /\ parts[2] # <<>>
        /\ parts[3] = <<"pull">>
        /\ parts[4] # <<>>

\* C8: a URL whose host is not github.com or whose path is not of the shape
\* /{owner}/{repo}/pull/{number} gets an input error and a completed response,
\* and no diff fetch or completion call is made.
C8_BadUrlMakesNoCalls ==
    (InAgent /\ (query.hostname # "github.com" \/ ~PrPathShape(query.path)))
    => /\ Events("fetch") = <<>>
       /\ Calls = <<>>
       /\ pc = "done" =>
             /\ Len(Events("emit_error")) = 1
             /\ Len(Events("complete")) = 1

\* C9: after a successful fetch yielding N chunks the SUMMARY stream receives
\* N blocks, for chunks 1..N in order; block i is emitted before the call for
\* chunk i+1 is sent; the stream is completed only after the N-th block, and
\* the response is completed exactly once.
C9_StreamsBlocksInOrder ==
    (InAgent /\ FetchSucceeded) =>
        /\ Len(Emits) <= Len(chunks)
        /\ \A j \in 1..Len(Emits) :
              /\ Emits[j].stream = "SUMMARY"
              /\ Emits[j].text[2] = ToString(j)
        /\ \A j \in 1..Len(Calls) :
              j > 1 => /\ Len(Emits) >= j - 1
                       /\ Positions("emit_chunk")[j - 1] < Positions("completion_call")[j]
        /\ Len(Events("stream_complete")) <= 1
        /\ Events("stream_complete") # <<>> =>
              /\ Len(Emits) = Len(chunks)
              /\ \A j \in 1..Len(Emits) :
                    Positions("emit_chunk")[j] < Positions("stream_complete")[1]
        /\ Len(Events("complete")) <= 1
        /\ pc = "done" =>
              /\ Len(Emits) = Len(chunks)
              /\ Len(Events("stream_complete")) = 1
              /\ Len(Events("complete")) = 1
              /\ trace[Len(trace)].op = "complete"

C9_Witness ==
    /\ pc = "done"
    /\ InAgent
    /\ FetchSucceeded
    /\ Len(chunks) >= 2
    /\ Len(Emits) = Len(chunks)
    /\ Failed(Results[1].outcome)

\* C10: a diff of N chunks causes exactly N completion calls, for chunks 1..N
\* in order and none twice; the call for chunk i+1 is sent only after the
\* result of chunk i is recorded; the webhook posts its one comment only after
\* all N results are recorded.
C10_OneCallPerChunkInOrder ==
    InWebhook =>
        /\ Len(Calls) <= Len(chunks)
        /\ \A j \in 1..Len(Calls) :
              /\ Calls[j].index = j
              /\ Calls[j].total = Len(chunks)
              /\ j > 1 => /\ Len(Results) >= j - 1
                          /\ Positions("completion_result")[j - 1]
                                < Positions("completion_call")[j]
        /\ Len(Results) <= Len(Calls)
        /\ Len(summaries) = Len(Results)
        /\ Len(Events("post")) <= 1
        /\ Events("post") # <<>> =>
              /\ Len(Calls) = Len(chunks)
              /\ Len(Results) = Len(chunks)
              /\ \A j \in 1..Len(Results) :
                    Positions("completion_result")[j] < Positions("post")[1]
        /\ (pc = "done" /\ FetchSucceeded) =>
              /\ Len(Calls) = Len(chunks)
              /\ Len(Events("post")) = 1

C10_Witness ==
    /\ pc = "done"
    /\ InWebhook
    /\ Len(chunks) >= 2
    /\ Len(Calls) = Len(chunks)
    /\ CompletionFailed
    /\ PostSucceeded

====
